---- MODULE Spec2Model ----
(***************************************************************************)
(* Model of the turn-orchestration pipeline of src/main.py (agent_chat):   *)
(* speech-to-text -> dialog assembly -> language model -> chunked          *)
(* text-to-speech, over the process-wide session map chat_sessions.        *)
(*                                                                         *)
(* Texts are sequences of one-character strings.  agent_chat is an         *)
(* `async def` whose only await is `await file.read()` (line 46); every    *)
(* adapter call is a blocking call, so from line 47 to its return a cycle  *)
(* holds the event loop.  `running` is that event loop.                    *)
(***************************************************************************)
EXTENDS Integers, Sequences, FiniteSets, TLC

\* ---------------------------------------------------------------- bounds
MaxCycles == 2      \* cycles started in one behaviour
MaxChunks == 3      \* longest reply, in chunks of CHUNK_SIZE

\* ------------------------------------------------------------- constants
CHUNK_SIZE == 3000

FALLBACK_TEXT == <<"I", "'", "m", " ", "h", "a", "v", "i", "n", "g", " ", "t", "r", "o", "u", "b", "l", "e", " ", "c", "o", "n", "n", "e", "c", "t", "i", "n", "g", " ", "r", "i", "g", "h", "t", " ", "n", "o", "w", ".">>

\* Requests that may be in flight together.
Reqs == {"r1", "r2"}
SessionIds == {"s1", "s2"}
NoReq == "none"

\* Python's None (a failed synthesize), and the error field when absent.
None == <<>>

\* ----------------------------------------------------------------- texts
Whitespace == {" ", "\n", "\t", "\r"}

Min(a, b) == IF a < b THEN a ELSE b

RECURSIVE lstrip(_)
\* str.lstrip(): drop the leading whitespace.
lstrip(t) ==
  IF t = <<>> THEN t
  ELSE IF t[1] \in Whitespace THEN lstrip(Tail(t)) ELSE t

RECURSIVE rstrip(_)
\* str.rstrip(): drop the trailing whitespace.
rstrip(t) ==
  IF t = <<>> THEN t
  ELSE IF t[Len(t)] \in Whitespace THEN rstrip(SubSeq(t, 1, Len(t) - 1)) ELSE t

\* str.strip(): the text without its leading and trailing whitespace.
strip(t) == lstrip(rstrip(t))

\* IsBlank without the strip: only the empty text counts as blank.
IsBlank_NoStrip(t) == t = <<>>

\* IsBlank with the test lost: nothing counts as blank.
IsBlank_Never(t) == FALSE

\* `not text.strip()`
IsBlank(t) == strip(t) = <<>>

\* text[a:b] for 0 <= a <= b (Python slicing clamps b to len(text)).
Slice(t, a, b) == SubSeq(t, a + 1, Min(b, Len(t)))

\* Prefix with the role test lost: every line is a user line.
Prefix_AlwaysUser(m) == <<"U", "s", "e", "r", ":", " ">>

\* ("User: " if m["role"] == "user" else "AI: ") + m["content"]
Prefix(m) ==
  IF m.role = "user" THEN <<"U", "s", "e", "r", ":", " ">> ELSE <<"A", "I", ":", " ">>

DialogLine(m) == Prefix(m) \o m.content

RECURSIVE Join(_)
\* "\n".join(lines)
Join(lines) ==
  IF lines = <<>> THEN <<>>
  ELSE IF Len(lines) = 1 THEN lines[1]
  ELSE lines[1] \o <<"\n">> \o Join(Tail(lines))

\* Dialog that sends only the newest turn.
Dialog_LastTurnOnly(session) ==
  DialogLine(session[Len(session)]) \o <<"\n", "A", "I", ":">>

\* line 60: the flattened dialog sent to the language model.
Dialog(session) ==
  Join([k \in 1..Len(session) |-> DialogLine(session[k])]) \o <<"\n", "A", "I", ":">>

\* ---------------------------------------------------------------- inputs
\* What the upload can be: no bytes, a read that raises, or audio bytes.
Files == {"empty", "unreadable", "audio"}

HELLO == <<"h", "e", "l", "l", "o">>

\* stt_service.transcribe: "" on any failure, else the transcript text
\* (which may be whitespace only).
SttOutputs == {<<>>, <<" ", " ">>, HELLO}

Letters == <<"a", "b", "c", "d", "e", "f", "g">>

ReplyText(n) == [k \in 1..n |-> Letters[((k - 1) % 7) + 1]]

\* One full chunk, and for every chunk count from 3 up to MaxChunks a reply
\* whose last chunk has 1000 characters (7000, 10000, ...).
ReplyLens == {CHUNK_SIZE} \cup {(k - 1) * CHUNK_SIZE + 1000 : k \in 3..MaxChunks}

\* llm_service.get_response: "" on any failure, else the reply text.
LlmOutputs ==
  {<<>>, <<" ", "\n">>, <<" ", "o", "k", " ">>} \cup {ReplyText(n) : n \in ReplyLens}

\* tts_service.synthesize: None on failure, else the URL of the audio file
\* made by the k-th synthesis call of the cycle.
AudioUrl(k) == <<"audio", k>>

\* ----------------------------------------------------------------- state
VARIABLES
  chat_sessions,  \* line 37: session id -> list of turns
  frame,          \* per request: the locals of agent_chat and its position
  running,        \* the request holding the event loop, or NoReq
  cycles          \* cycles started so far

vars == <<chat_sessions, frame, running, cycles>>

NoResponse ==
  [transcription |-> <<>>, llm_response |-> <<>>, audioFiles |-> <<>>,
   chat_history |-> <<>>, error |-> None]

\* The locals of agent_chat (session_id, file, user_text, dialog, llm_text,
\* i, audio_urls), its position pc and its return value, and the record of
\* what the cycle has done: the store as it was when the body resumed after
\* line 46, and the calls made at each adapter call site.
IdleFrame ==
  [pc |-> "idle", session_id |-> "s1", file |-> "audio",
   user_text |-> <<>>, dialog |-> <<>>, llm_text |-> <<>>,
   i |-> 0, audio_urls |-> <<>>, response |-> NoResponse,
   history_before |-> <<>>, known_before |-> FALSE,
   stt_calls |-> 0, llm_calls |-> <<>>, tts_calls |-> <<>>, fallback_calls |-> <<>>]

\* chat_sessions.get(sid, [])
Get(store, sid) == IF sid \in DOMAIN store THEN store[sid] ELSE <<>>

\* chat_sessions.setdefault(sid, []) as the store it leaves behind.
SetDefault(store, sid) ==
  IF sid \in DOMAIN store THEN store
  ELSE [s \in (DOMAIN store) \cup {sid} |-> IF s = sid THEN <<>> ELSE store[s]]

Turn(role, content) == [role |-> role, content |-> content]

\* AppendUserTurn that starts the list again instead of appending to it.
AppendUserTurn_Reset(store, sid, user_text) ==
  [SetDefault(store, sid) EXCEPT ![sid] = <<Turn("user", user_text)>>]

\* AppendUserTurn on one list shared by all sessions.
AppendUserTurn_AllSessions(store, sid, user_text) ==
  [s \in DOMAIN SetDefault(store, sid) |->
     Append(SetDefault(store, sid)[s], Turn("user", user_text))]

\* lines 58-59
AppendUserTurn(store, sid, user_text) ==
  [SetDefault(store, sid) EXCEPT ![sid] = Append(@, Turn("user", user_text))]

\* AppendFallbackTurn that records the blank reply itself.
AppendFallbackTurn_Blank(store, sid) ==
  [store EXCEPT ![sid] = Append(@, Turn("assistant", <<>>))]

\* AppendFallbackTurn that records nothing.
AppendFallbackTurn_Skipped(store, sid) == store

\* line 63
AppendFallbackTurn(store, sid) ==
  [store EXCEPT ![sid] = Append(@, Turn("assistant", FALLBACK_TEXT))]

\* AppendAssistantTurn that records nothing.
AppendAssistantTurn_Skipped(store, sid, llm_text) == store

\* AppendAssistantTurn that stores the stripped reply.
AppendAssistantTurn_Stripped(store, sid, llm_text) ==
  [store EXCEPT ![sid] = Append(@, Turn("assistant", strip(llm_text)))]

\* line 67
AppendAssistantTurn(store, sid, llm_text) ==
  [store EXCEPT ![sid] = Append(@, Turn("assistant", llm_text))]

\* StoreAfterGet with setdefault in the place of get.
StoreAfterGet_SetDefault(store, sid) == SetDefault(store, sid)

\* lines 51, 56: chat_sessions.get(sid, []) leaves the store as it is.
StoreAfterGet(store, sid) == store

\* ChatResponse(...): the model validates and copies its arguments.
ChatResponse(transcription, llm_response, audioFiles, chat_history, error) ==
  [transcription |-> transcription, llm_response |-> llm_response,
   audioFiles |-> audioFiles, chat_history |-> chat_history, error |-> error]

\* ErrorOf with the stage of the llm branch pasted into every branch.
ErrorOf_StageLlm(stage, message) == <<[stage |-> "llm", message |-> message]>>

\* error={"stage": stage, "message": message}
ErrorOf(stage, message) == <<[stage |-> stage, message |-> message]>>

\* InputOk without the `if not audio_bytes` test.
InputOk_NoEmptyCheck(f) == f # "unreadable"

\* lines 46-48: the read returned and the payload is not empty
InputOk(f) == f = "audio"

\* FallbackList without the test of the result.
FallbackList_Unchecked(audio_url) == <<audio_url>>

\* line 41: [audio_url] if audio_url else []
FallbackList(audio_url) == IF audio_url # None THEN <<audio_url>> ELSE <<>>

\* An exception that leaves a call instead of a value.
Raised == <<"raised">>

\* The provider call inside an adapter failing (network, quota, auth, no client).
ProviderError == <<"error">>

\* What the speech-to-text provider can do: fail, or give a transcript whose
\* text is one of SttOutputs (<<>> stands for a text of None or "").
SttOutcomes == SttOutputs \cup {ProviderError}

\* transcribe without its try/except.
transcribe_NoExcept(outcome) == IF outcome = ProviderError THEN Raised ELSE outcome

\* stt_service.transcribe: `transcript.text or ""`, and "" on any exception.
transcribe(outcome) == IF outcome = ProviderError THEN <<>> ELSE outcome

\* What the language-model provider can do.
LlmOutcomes == LlmOutputs \cup {ProviderError}

\* get_response without its try/except.
get_response_NoExcept(outcome) == IF outcome = ProviderError THEN Raised ELSE outcome

\* llm_service.get_response: `resp.text or ""`, and "" on any exception.
get_response(outcome) == IF outcome = ProviderError THEN <<>> ELSE outcome

\* synthesize without its try/except.
Synthesize_NoExcept(n, ok) == IF ok THEN AudioUrl(n) ELSE Raised

\* tts_service.synthesize as the n-th synthesis call of a cycle: the audio
\* file of the provider's answer, and None on any exception.
Synthesize(n, ok) == IF ok THEN AudioUrl(n) ELSE None

\* Where the cycle goes after a call: on if it returned, out if it raised.
After(result, pc) == IF result = Raised THEN "raised" ELSE pc

\* Synthesis calls the cycle of r has made so far, at both call sites.
SynthCount(r) == Len(frame[r].tts_calls) + Len(frame[r].fallback_calls)

\* A synthesize call as the adapter saw it.
Call(text, result) == [text |-> text, result |-> result]

Init ==
  /\ chat_sessions = [s \in {} |-> <<>>]
  /\ frame = [r \in Reqs |-> IdleFrame]
  /\ running = NoReq
  /\ cycles = 0

\* ---------------------------------------------------------------- actions
\* line 44: a request for session sid arrives with an upload.
Start(r, sid, f) ==
  /\ frame[r].pc = "idle"
  /\ cycles < MaxCycles
  /\ cycles' = cycles + 1
  /\ frame' = [frame EXCEPT ![r] = [IdleFrame EXCEPT !.pc = "read", !.session_id = sid, !.file = f]]
  /\ UNCHANGED <<chat_sessions, running>>

\* CanResume for handlers that each run on a thread of their own.
CanResume_Threaded(r) == TRUE

\* line 46: a coroutine waiting at its await resumes when the event loop is
\* free; nothing between line 47 and the return gives the loop up.
CanResume(r) == running = NoReq

\* lines 45-48: `await file.read()` completes and the body resumes on the
\* event loop; an empty payload or a read that raises goes to the handler.
ReadFile(r) ==
  /\ frame[r].pc = "read"
  /\ CanResume(r)
  /\ running' = r
  /\ frame' = [frame EXCEPT ![r] =
                 [@ EXCEPT !.pc = IF InputOk(frame[r].file) THEN "stt" ELSE "input_error",
                           !.history_before = Get(chat_sessions, frame[r].session_id),
                           !.known_before = frame[r].session_id \in DOMAIN chat_sessions]]
  /\ UNCHANGED <<chat_sessions, cycles>>

\* lines 49-51
InputError(r) ==
  /\ frame[r].pc = "input_error"
  /\ running = r
  /\ \E ok \in BOOLEAN :
       LET audio_url == Synthesize(SynthCount(r) + 1, ok)
       IN frame' = [frame EXCEPT ![r] =
            [@ EXCEPT !.pc = After(audio_url, "done"),
                      !.fallback_calls = Append(@, Call(FALLBACK_TEXT, audio_url)),
                      !.response = IF audio_url = Raised THEN @ ELSE
                                   ChatResponse(<<>>, FALLBACK_TEXT,
                                      FallbackList(audio_url),
                                      Get(chat_sessions, frame[r].session_id),
                                      ErrorOf("input", IF frame[r].file = "empty"
                                                       THEN "No audio bytes received"
                                                       ELSE "read failed"))]]
  /\ chat_sessions' = StoreAfterGet(chat_sessions, frame[r].session_id)
  /\ UNCHANGED <<running, cycles>>

\* line 53
Transcribe(r) ==
  /\ frame[r].pc = "stt"
  /\ running = r
  /\ \E outcome \in SttOutcomes :
       LET text == transcribe(outcome)
       IN frame' = [frame EXCEPT ![r] =
            [@ EXCEPT !.pc = After(text, "stt_check"),
                      !.user_text = IF text = Raised THEN @ ELSE text,
                      !.stt_calls = @ + 1]]
  /\ UNCHANGED <<chat_sessions, running, cycles>>

\* lines 54-56
SttEmpty(r) ==
  /\ frame[r].pc = "stt_check"
  /\ running = r
  /\ IsBlank(frame[r].user_text)
  /\ \E ok \in BOOLEAN :
       LET audio_url == Synthesize(SynthCount(r) + 1, ok)
       IN frame' = [frame EXCEPT ![r] =
            [@ EXCEPT !.pc = After(audio_url, "done"),
                      !.fallback_calls = Append(@, Call(FALLBACK_TEXT, audio_url)),
                      !.response = IF audio_url = Raised THEN @ ELSE
                                   ChatResponse(<<>>, FALLBACK_TEXT,
                                      FallbackList(audio_url),
                                      Get(chat_sessions, frame[r].session_id),
                                      ErrorOf("stt", "Empty transcription"))]]
  /\ chat_sessions' = StoreAfterGet(chat_sessions, frame[r].session_id)
  /\ UNCHANGED <<running, cycles>>

\* lines 54 (false), 58-60
AppendUser(r) ==
  /\ frame[r].pc = "stt_check"
  /\ running = r
  /\ ~IsBlank(frame[r].user_text)
  /\ LET sid == frame[r].session_id
         store == AppendUserTurn(chat_sessions, sid, frame[r].user_text)
     IN /\ chat_sessions' = store
        /\ frame' = [frame EXCEPT ![r] = [@ EXCEPT !.pc = "llm", !.dialog = Dialog(store[sid])]]
  /\ UNCHANGED <<running, cycles>>

\* line 61
GetResponse(r) ==
  /\ frame[r].pc = "llm"
  /\ running = r
  /\ \E outcome \in LlmOutcomes :
       LET text == get_response(outcome)
       IN frame' = [frame EXCEPT ![r] =
            [@ EXCEPT !.pc = After(text, "llm_check"),
                      !.llm_text = IF text = Raised THEN @ ELSE text,
                      !.llm_calls = Append(@, frame[r].dialog)]]
  /\ UNCHANGED <<chat_sessions, running, cycles>>

\* lines 62-65
LlmEmpty(r) ==
  /\ frame[r].pc = "llm_check"
  /\ running = r
  /\ IsBlank(frame[r].llm_text)
  /\ LET sid == frame[r].session_id
         store == AppendFallbackTurn(chat_sessions, sid)
     IN /\ chat_sessions' = store
        /\ \E ok \in BOOLEAN :
             LET audio_url == Synthesize(SynthCount(r) + 1, ok)
             IN frame' = [frame EXCEPT ![r] =
                  [@ EXCEPT !.pc = After(audio_url, "done"),
                            !.fallback_calls = Append(@, Call(FALLBACK_TEXT, audio_url)),
                            !.response = IF audio_url = Raised THEN @ ELSE
                                         ChatResponse(frame[r].user_text, FALLBACK_TEXT,
                                            FallbackList(audio_url),
                                            store[sid],
                                            ErrorOf("llm", "Empty LLM output"))]]
  /\ UNCHANGED <<running, cycles>>

\* lines 62 (false), 67, 70
AppendAssistant(r) ==
  /\ frame[r].pc = "llm_check"
  /\ running = r
  /\ ~IsBlank(frame[r].llm_text)
  /\ chat_sessions' = AppendAssistantTurn(chat_sessions, frame[r].session_id, frame[r].llm_text)
  /\ frame' = [frame EXCEPT ![r] = [@ EXCEPT !.pc = "tts", !.i = 0, !.audio_urls = <<>>]]
  /\ UNCHANGED <<running, cycles>>

\* Chunk with an inclusive end index.
Chunk_InclusiveEnd(text, i) == Slice(text, i, i + CHUNK_SIZE + 1)

\* line 72: chunk = llm_text[i:i + CHUNK_SIZE]
Chunk(text, i) == Slice(text, i, i + CHUNK_SIZE)

\* NextIndex that steps over a chunk.
NextIndex_Skip(i) == i + 2 * CHUNK_SIZE

\* line 71: the value of range(0, len(llm_text), CHUNK_SIZE) after i
NextIndex(i) == i + CHUNK_SIZE

\* Collect that puts the newest reference first.
Collect_Prepend(audio_urls, audio_url) ==
  IF audio_url # None THEN <<audio_url>> \o audio_urls ELSE audio_urls

\* lines 74-75
Collect(audio_urls, audio_url) ==
  IF audio_url # None THEN Append(audio_urls, audio_url) ELSE audio_urls

\* lines 71-75: one iteration of the synthesis loop
TtsChunk(r) ==
  /\ frame[r].pc = "tts"
  /\ running = r
  /\ frame[r].i < Len(frame[r].llm_text)
  /\ \E ok \in BOOLEAN :
       LET chunk == Chunk(frame[r].llm_text, frame[r].i)
           audio_url == Synthesize(SynthCount(r) + 1, ok)
       IN frame' = [frame EXCEPT ![r] =
            [@ EXCEPT !.pc = After(audio_url, "tts"),
                      !.i = IF audio_url = Raised THEN @ ELSE NextIndex(@),
                      !.audio_urls = IF audio_url = Raised THEN @ ELSE Collect(@, audio_url),
                      !.tts_calls = Append(@, Call(chunk, audio_url))]]
  /\ UNCHANGED <<chat_sessions, running, cycles>>

\* NeedsFallback that also fires for a list of one reference.
NeedsFallback_Short(audio_urls) == Len(audio_urls) < 2

\* line 76: `if not audio_urls`
NeedsFallback(audio_urls) == audio_urls = <<>>

\* lines 71 (range exhausted), 76, 79-84: some chunk was synthesized
ReturnAudio(r) ==
  /\ frame[r].pc = "tts"
  /\ running = r
  /\ frame[r].i >= Len(frame[r].llm_text)
  /\ ~NeedsFallback(frame[r].audio_urls)
  /\ frame' = [frame EXCEPT ![r] =
       [@ EXCEPT !.pc = "done",
                 !.response = ChatResponse(frame[r].user_text, frame[r].llm_text,
                                 frame[r].audio_urls,
                                 chat_sessions[frame[r].session_id], None)]]
  /\ UNCHANGED <<chat_sessions, running, cycles>>

\* lines 71 (range exhausted), 76-77, 79-84: no chunk was synthesized
ReturnFallback(r) ==
  /\ frame[r].pc = "tts"
  /\ running = r
  /\ frame[r].i >= Len(frame[r].llm_text)
  /\ NeedsFallback(frame[r].audio_urls)
  /\ \E ok \in BOOLEAN :
       LET audio_url == Synthesize(SynthCount(r) + 1, ok)
       IN frame' = [frame EXCEPT ![r] =
            [@ EXCEPT !.pc = After(audio_url, "done"),
                      !.audio_urls = IF audio_url = Raised THEN @ ELSE FallbackList(audio_url),
                      !.fallback_calls = Append(@, Call(FALLBACK_TEXT, audio_url)),
                      !.response = IF audio_url = Raised THEN @ ELSE
                                   ChatResponse(frame[r].user_text, frame[r].llm_text,
                                      FallbackList(audio_url),
                                      chat_sessions[frame[r].session_id], None)]]
  /\ UNCHANGED <<chat_sessions, running, cycles>>

\* The returned ChatResponse is serialised and handed to the transport without
\* another await (an exception that left agent_chat goes to the framework's
\* error handler); the coroutine's frame is gone and the event loop is free.
Deliver(r) ==
  /\ frame[r].pc \in {"done", "raised"}
  /\ running = r
  /\ frame' = [frame EXCEPT ![r] = IdleFrame]
  /\ running' = NoReq
  /\ UNCHANGED <<chat_sessions, cycles>>

Next ==
  \E r \in Reqs :
    \/ \E sid \in SessionIds, f \in Files : Start(r, sid, f)
    \/ ReadFile(r)
    \/ InputError(r)
    \/ Transcribe(r)
    \/ SttEmpty(r)
    \/ AppendUser(r)
    \/ GetResponse(r)
    \/ LlmEmpty(r)
    \/ AppendAssistant(r)
    \/ TtsChunk(r)
    \/ ReturnAudio(r)
    \/ ReturnFallback(r)
    \/ Deliver(r)

Spec == Init /\ [][Next]_vars

\* What the cycle of r does once its request has arrived.
Step(r) ==
  \/ ReadFile(r) \/ InputError(r) \/ Transcribe(r) \/ SttEmpty(r) \/ AppendUser(r)
  \/ GetResponse(r) \/ LlmEmpty(r) \/ AppendAssistant(r) \/ TtsChunk(r)
  \/ ReturnAudio(r) \/ ReturnFallback(r) \/ Deliver(r)

\* The event loop runs every coroutine that is ready, and every adapter call
\* returns.
FairSpec == Spec /\ \A r \in Reqs : WF_vars(Step(r))

TypeOK ==
  /\ DOMAIN chat_sessions \subseteq SessionIds
  /\ running \in Reqs \cup {NoReq}
  /\ cycles \in 0..MaxCycles
  /\ \A r \in Reqs : frame[r].pc \in {"idle", "read", "input_error", "stt", "stt_check",
                                      "llm", "llm_check", "tts", "done", "raised"}

\* ------------------------------------------------------ vocabulary of the claims
\* Empty or whitespace-only text.
Blank(t) == \A k \in 1..Len(t) : t[k] \in Whitespace

Done(r) == frame[r].pc = "done"

\* The session of r's cycle as the store holds it now.
Session(r) == Get(chat_sessions, frame[r].session_id)

\* The Transcription Adapter returned non-blank text in r's cycle.
TranscriptionOk(r) == frame[r].stt_calls > 0 /\ ~Blank(frame[r].user_text)

TranscriptionBlank(r) == frame[r].stt_calls > 0 /\ Blank(frame[r].user_text)

\* The Response Generator returned in r's cycle, with non-blank / blank text.
GenerationOk(r) == frame[r].llm_calls # <<>> /\ ~Blank(frame[r].llm_text)

GenerationBlank(r) == frame[r].llm_calls # <<>> /\ Blank(frame[r].llm_text)

\* The upload of r's cycle has been read and found empty or unreadable.
InputBad(r) == frame[r].file # "audio" /\ frame[r].pc \in {"input_error", "done"}

UserTurnOf(r) == [role |-> "user", content |-> frame[r].user_text]

ReplyTurnOf(r) == [role |-> "assistant", content |-> frame[r].llm_text]

FallbackTurn == [role |-> "assistant", content |-> FALLBACK_TEXT]

\* The synthesis loop of r's cycle has run to its end.
LoopFinished(r) ==
  /\ GenerationOk(r)
  /\ frame[r].pc \in {"tts", "done"}
  /\ frame[r].i >= Len(frame[r].llm_text)

RECURSIVE ConcatTexts(_)
\* The texts of a sequence of synthesis calls, concatenated in call order.
ConcatTexts(calls) ==
  IF calls = <<>> THEN <<>> ELSE calls[1].text \o ConcatTexts(Tail(calls))

\* The references returned by the calls that succeeded, in call order.
Refs(calls) ==
  LET ok == SelectSeq(calls, LAMBDA c : c.result # None)
  IN [k \in 1..Len(ok) |-> ok[k].result]

CeilDiv(a, b) == (a + b - 1) \div b

RECURSIVE LineStart(_, _)
\* Characters of the flattened dialog that precede the line of turn k.
LineStart(session, k) ==
  IF k = 1 THEN 0
  ELSE LineStart(session, k - 1)
         + (IF session[k - 1].role = "user" THEN 6 ELSE 4)
         + Len(session[k - 1].content) + 1

FallbackLine == <<"A", "I", ":", " ">> \o FALLBACK_TEXT

\* ------------------------------------------------------------------ claims
\* C1: a cycle whose transcription and generation are both non-blank leaves
\* the session exactly two turns longer: the history it found, then the user
\* turn holding the transcription, then the assistant turn holding the reply,
\* throughout synthesis and at the return, whatever the synthesis outcomes.
C1_SuccessAddsTwoTurns ==
  \A r \in Reqs :
    (TranscriptionOk(r) /\ GenerationOk(r) /\ frame[r].pc \in {"tts", "done"}) =>
      /\ Session(r) = frame[r].history_before \o <<UserTurnOf(r), ReplyTurnOf(r)>>
      /\ Len(Session(r)) = Len(frame[r].history_before) + 2
      /\ Done(r) => frame[r].response.chat_history = Session(r)

\* A second successful cycle on a session, returned with every synthesis failed.
C1_Witness ==
  \E r \in Reqs :
    /\ Done(r) /\ TranscriptionOk(r) /\ GenerationOk(r)
    /\ Len(frame[r].history_before) = 2
    /\ Len(frame[r].tts_calls) > 1
    /\ frame[r].response.audioFiles = <<>>

\* C2: when the Transcription Adapter returns empty or whitespace-only text
\* the cycle exits with error.stage = "stt" and transcription = "", the
\* session is as the cycle found it, and the Response Generator is not invoked.
C2_BlankTranscriptionExit ==
  \A r \in Reqs :
    TranscriptionBlank(r) =>
      /\ frame[r].pc \in {"stt_check", "done"}
      /\ Session(r) = frame[r].history_before
      /\ frame[r].llm_calls = <<>>
      /\ Done(r) =>
           /\ frame[r].response.error # None
           /\ frame[r].response.error[1].stage = "stt"
           /\ frame[r].response.transcription = <<>>
           /\ frame[r].response.chat_history = frame[r].history_before

\* A whitespace-only transcription on a session that already has turns.
C2_Witness ==
  \E r \in Reqs :
    /\ Done(r)
    /\ frame[r].stt_calls = 1
    /\ frame[r].user_text = <<" ", " ">>
    /\ frame[r].history_before # <<>>

\* C3 as stated: a non-blank transcription followed by a blank generation
\* leaves the session exactly one turn longer.
C3_Original ==
  \A r \in Reqs :
    (Done(r) /\ TranscriptionOk(r) /\ GenerationBlank(r)) =>
      Len(Session(r)) = Len(frame[r].history_before) + 1

\* C3 amended: a non-blank transcription followed by a blank generation leaves
\* the session exactly two turns longer: the user turn appended before the
\* generation, then the fallback assistant turn.
C3_BlankGenerationAddsTwoTurns ==
  \A r \in Reqs :
    (Done(r) /\ TranscriptionOk(r) /\ GenerationBlank(r)) =>
      /\ Len(Session(r)) = Len(frame[r].history_before) + 2
      /\ Session(r) = frame[r].history_before \o <<UserTurnOf(r), FallbackTurn>>

\* A blank generation in the first cycle of a session.
C3_Witness ==
  \E r \in Reqs :
    /\ Done(r) /\ TranscriptionOk(r) /\ GenerationBlank(r)
    /\ frame[r].history_before = <<>>
    /\ Len(Session(r)) = 2

\* C4: a blank generation records the fallback text as the last assistant turn
\* of the session before the exit and returns transcription = user text,
\* llm_response = fallback text, error.stage = "llm" and a chat_history ending
\* in that turn; and every dialog sent to the Response Generator carries, at
\* its place, the line of each fallback turn the session held before the cycle.
C4_FallbackTurnRecorded ==
  \A r \in Reqs :
    /\ (Done(r) /\ GenerationBlank(r)) =>
         /\ Session(r) # <<>>
         /\ Session(r)[Len(Session(r))] = FallbackTurn
         /\ frame[r].response.transcription = frame[r].user_text
         /\ frame[r].response.llm_response = FALLBACK_TEXT
         /\ frame[r].response.error # None
         /\ frame[r].response.error[1].stage = "llm"
         /\ frame[r].response.chat_history = Session(r)
    /\ frame[r].llm_calls # <<>> =>
         \A k \in 1..Len(frame[r].history_before) :
           frame[r].history_before[k] = FallbackTurn =>
             LET at == LineStart(frame[r].history_before, k)
                 sent == frame[r].llm_calls[1]
             IN /\ Len(sent) >= at + Len(FallbackLine)
                /\ SubSeq(sent, at + 1, at + Len(FallbackLine)) = FallbackLine

\* A cycle has sent a dialog for a session whose previous cycle ended in the
\* fallback turn.
C4_Witness ==
  \E r \in Reqs :
    /\ frame[r].llm_calls # <<>>
    /\ Len(frame[r].history_before) = 2
    /\ frame[r].history_before[2] = FallbackTurn

\* C5: an empty or unreadable upload exits with error.stage = "input",
\* transcription = "" and llm_response = fallback text, leaves the session as
\* it was, and invokes neither the Transcription Adapter nor the Response
\* Generator.
C5_InputErrorExit ==
  \A r \in Reqs :
    InputBad(r) =>
      /\ frame[r].stt_calls = 0
      /\ frame[r].llm_calls = <<>>
      /\ Session(r) = frame[r].history_before
      /\ Done(r) =>
           /\ frame[r].response.error # None
           /\ frame[r].response.error[1].stage = "input"
           /\ frame[r].response.transcription = <<>>
           /\ frame[r].response.llm_response = FALLBACK_TEXT
           /\ frame[r].response.chat_history = frame[r].history_before

\* An empty upload for a session that already has turns.
C5_Witness ==
  \E r \in Reqs :
    /\ Done(r)
    /\ frame[r].file = "empty"
    /\ frame[r].history_before # <<>>

\* The stage at which r's cycle left the pipeline, from the adapters' results.
ExitStage(r) ==
  IF frame[r].file # "audio" THEN "input"
  ELSE IF Blank(frame[r].user_text) THEN "stt"
  ELSE IF Blank(frame[r].llm_text) THEN "llm"
  ELSE "success"

\* C6: the error field is present exactly when the cycle exited at the input,
\* stt or llm stage, and then names that stage; a cycle whose generation
\* succeeded carries no error field, whatever the synthesis calls returned.
C6_ErrorFieldIsExitStage ==
  \A r \in Reqs :
    Done(r) =>
      IF ExitStage(r) = "success"
      THEN frame[r].response.error = None
      ELSE /\ frame[r].response.error # None
           /\ frame[r].response.error[1].stage = ExitStage(r)

\* A successful cycle in which every chunk synthesis and the fallback
\* synthesis failed.
C6_Witness ==
  \E r \in Reqs :
    /\ Done(r) /\ GenerationOk(r)
    /\ frame[r].tts_calls # <<>>
    /\ Refs(frame[r].tts_calls) = <<>>
    /\ Len(frame[r].fallback_calls) = 1
    /\ frame[r].fallback_calls[1].result = None
    /\ frame[r].response.error = None

\* C7: after a successful generation, when no chunk synthesis returned a
\* reference the audio list is the single fallback reference if the fallback
\* synthesis succeeded and empty only if it failed; when some chunk synthesis
\* returned a reference no fallback synthesis is made and no fallback reference
\* is in the list.
C7_FallbackOnlyForEmptyList ==
  \A r \in Reqs :
    (Done(r) /\ GenerationOk(r)) =>
      IF Refs(frame[r].tts_calls) = <<>>
      THEN /\ Len(frame[r].fallback_calls) = 1
           /\ frame[r].fallback_calls[1].text = FALLBACK_TEXT
           /\ frame[r].response.audioFiles =
                (IF frame[r].fallback_calls[1].result # None
                 THEN <<frame[r].fallback_calls[1].result>> ELSE <<>>)
      ELSE /\ frame[r].fallback_calls = <<>>
           /\ frame[r].response.audioFiles = Refs(frame[r].tts_calls)

\* Every chunk of a multi-chunk reply failed and the fallback synthesis succeeded.
C7_Witness ==
  \E r \in Reqs :
    /\ Done(r) /\ GenerationOk(r)
    /\ Len(frame[r].tts_calls) > 1
    /\ Refs(frame[r].tts_calls) = <<>>
    /\ Len(frame[r].response.audioFiles) = 1

\* C8: the chunks passed to the Speech Synthesis Adapter are never empty, are
\* at most CHUNK_SIZE long, are exactly CHUNK_SIZE long unless last, and once
\* the loop has ended their concatenation in call order is the reply text.
C8_ChunkingLossless ==
  \A r \in Reqs :
    /\ \A k \in 1..Len(frame[r].tts_calls) :
         /\ frame[r].tts_calls[k].text # <<>>
         /\ Len(frame[r].tts_calls[k].text) <= CHUNK_SIZE
         /\ k < Len(frame[r].tts_calls) => Len(frame[r].tts_calls[k].text) = CHUNK_SIZE
    /\ LoopFinished(r) => ConcatTexts(frame[r].tts_calls) = frame[r].llm_text

\* The loop ended on a reply of several chunks whose last chunk is short.
C8_Witness ==
  \E r \in Reqs :
    /\ LoopFinished(r)
    /\ Len(frame[r].tts_calls) > 2
    /\ Len(frame[r].tts_calls[Len(frame[r].tts_calls)].text) < CHUNK_SIZE

\* C9: for a non-blank reply of length L the loop makes exactly
\* ceil(L / CHUNK_SIZE) synthesis calls, the k-th on characters
\* (k-1)*CHUNK_SIZE .. k*CHUNK_SIZE of the reply, whether or not earlier calls
\* failed; a reply of 2*CHUNK_SIZE + 1000 characters gives 3 calls.
C9_OneCallPerChunk ==
  \A r \in Reqs :
    /\ GenerationOk(r) =>
         /\ Len(frame[r].tts_calls) <= CeilDiv(Len(frame[r].llm_text), CHUNK_SIZE)
         /\ \A k \in 1..Len(frame[r].tts_calls) :
              frame[r].tts_calls[k].text =
                SubSeq(frame[r].llm_text, (k - 1) * CHUNK_SIZE + 1,
                       Min(k * CHUNK_SIZE, Len(frame[r].llm_text)))
    /\ LoopFinished(r) =>
         /\ Len(frame[r].tts_calls) = CeilDiv(Len(frame[r].llm_text), CHUNK_SIZE)
         /\ Len(frame[r].llm_text) = 2 * CHUNK_SIZE + 1000 =>
              [k \in 1..Len(frame[r].tts_calls) |-> Len(frame[r].tts_calls[k].text)]
                = <<CHUNK_SIZE, CHUNK_SIZE, 1000>>

\* The loop ended on a 7000-character reply whose first chunk failed and whose
\* later chunks were still synthesized.
C9_Witness ==
  \E r \in Reqs :
    /\ LoopFinished(r)
    /\ Len(frame[r].llm_text) = 2 * CHUNK_SIZE + 1000
    /\ Len(frame[r].tts_calls) = 3
    /\ frame[r].tts_calls[1].result = None
    /\ frame[r].tts_calls[3].result # None

\* C10: during and after the loop the collected audio list is the references
\* of the chunk syntheses that succeeded, in chunk order, failed chunks being
\* left out; it has at most ceil(L / CHUNK_SIZE) entries, and a non-empty one
\* is returned as it is.
C10_AudioListIsSucceededChunks ==
  \A r \in Reqs :
    /\ frame[r].pc = "tts" =>
         /\ frame[r].audio_urls = Refs(frame[r].tts_calls)
         /\ Len(frame[r].audio_urls) <= CeilDiv(Len(frame[r].llm_text), CHUNK_SIZE)
    /\ (Done(r) /\ GenerationOk(r) /\ Refs(frame[r].tts_calls) # <<>>) =>
         /\ frame[r].response.audioFiles = Refs(frame[r].tts_calls)
         /\ Len(frame[r].response.audioFiles) <= Len(frame[r].tts_calls)

\* A returned list that skips a failed middle chunk.
C10_Witness ==
  \E r \in Reqs :
    /\ Done(r) /\ GenerationOk(r)
    /\ Len(frame[r].tts_calls) = 3
    /\ frame[r].tts_calls[2].result = None
    /\ Len(frame[r].response.audioFiles) = 2

\* The turns of r's session when its dialog was assembled: what the cycle
\* found, then its own user turn.
TurnsAtSend(r) == frame[r].history_before \o <<UserTurnOf(r)>>

LineOf(m) ==
  (IF m.role = "user" THEN <<"U", "s", "e", "r", ":", " ">> ELSE <<"A", "I", ":", " ">>)
    \o m.content

\* C11: the dialog passed to the Response Generator holds, in append order and
\* one per line, every turn the session had when the cycle began (the turns of
\* earlier cycles on the same identifier) and then this cycle's user turn, each
\* prefixed "User: " or "AI: " by role, and ends with the cue "AI:" on a line
\* of its own, with nothing else in it.
C11_DialogEncodesSession ==
  \A r \in Reqs :
    frame[r].llm_calls # <<>> =>
      LET sent == frame[r].llm_calls[1]
          turns == TurnsAtSend(r)
          n == Len(turns)
      IN /\ Len(sent) = LineStart(turns, n + 1) + 3
         /\ SubSeq(sent, Len(sent) - 3, Len(sent)) = <<"\n", "A", "I", ":">>
         /\ \A k \in 1..n :
              /\ SubSeq(sent, LineStart(turns, k) + 1, LineStart(turns, k + 1) - 1)
                   = LineOf(turns[k])
              /\ k > 1 => sent[LineStart(turns, k)] = "\n"
         /\ turns[n].role = "user"

\* The second cycle on a session has sent its dialog after a first cycle that
\* stored a user turn and a model reply.
C11_Witness ==
  \E r \in Reqs :
    /\ frame[r].llm_calls # <<>>
    /\ Len(frame[r].history_before) = 2
    /\ frame[r].history_before[1].role = "user"
    /\ frame[r].history_before[2].role = "assistant"
    /\ frame[r].history_before[2].content # FALLBACK_TEXT

\* A Turn Result with every field in place.
Complete(response) ==
  /\ DOMAIN response = {"transcription", "llm_response", "audioFiles", "chat_history", "error"}
  /\ response.llm_response # <<>>
  /\ Len(response.audioFiles) <= MaxChunks
  /\ \/ response.error = None
     \/ /\ Len(response.error) = 1
        /\ response.error[1].stage \in {"input", "stt", "llm"}

\* C12: whatever the adapters do (each call succeeding or failing), no call of
\* a cycle lets an exception out, and a cycle that has started eventually
\* returns a complete Turn Result.
C12_CycleReturnsResult ==
  /\ [](\A r \in Reqs : frame[r].pc # "raised")
  /\ \A r \in Reqs : (frame[r].pc = "read") ~> (Done(r) /\ Complete(frame[r].response))

\* A cycle returned after the generation and the fallback synthesis both failed.
C12_Witness ==
  \E r \in Reqs :
    /\ Done(r) /\ TranscriptionOk(r) /\ GenerationBlank(r)
    /\ frame[r].llm_text = <<>>
    /\ frame[r].fallback_calls[1].result = None
    /\ Complete(frame[r].response)

\* C13: a cycle that exits at the input, stt or llm stage returns the fallback
\* text as its reply, has made exactly one synthesis call, on the fallback
\* text, and returns that call's reference alone if it succeeded and the empty
\* list if it failed; it has synthesized no chunk.
C13_ErrorExitAudio ==
  \A r \in Reqs :
    (Done(r) /\ ExitStage(r) # "success") =>
      /\ frame[r].response.llm_response = FALLBACK_TEXT
      /\ frame[r].tts_calls = <<>>
      /\ Len(frame[r].fallback_calls) = 1
      /\ frame[r].fallback_calls[1].text = FALLBACK_TEXT
      /\ frame[r].response.audioFiles =
           (IF frame[r].fallback_calls[1].result = None
            THEN <<>> ELSE <<frame[r].fallback_calls[1].result>>)

\* An stt exit whose fallback synthesis failed.
C13_Witness ==
  \E r \in Reqs :
    /\ Done(r) /\ ExitStage(r) = "stt"
    /\ frame[r].fallback_calls[1].result = None
    /\ frame[r].response.audioFiles = <<>>

\* r's cycle has appended its user turn and not yet its assistant turn.
BetweenAppends(r) == frame[r].pc \in {"llm", "llm_check"}

\* r's cycle is past the read of line 46 and has not handed over its result.
PastRead(r) ==
  frame[r].pc \in {"input_error", "stt", "stt_check", "llm", "llm_check", "tts", "done"}

\* The turns r's cycle has appended so far.
OwnTurns(r) ==
  IF frame[r].pc \in {"llm", "llm_check"} THEN <<UserTurnOf(r)>>
  ELSE IF frame[r].pc = "tts" THEN <<UserTurnOf(r), ReplyTurnOf(r)>>
  ELSE IF frame[r].pc = "done" /\ ExitStage(r) = "success" THEN <<UserTurnOf(r), ReplyTurnOf(r)>>
  ELSE IF frame[r].pc = "done" /\ ExitStage(r) = "llm" THEN <<UserTurnOf(r), FallbackTurn>>
  ELSE <<>>

C15_AppendOnly ==
  [][\A sid \in DOMAIN chat_sessions :
       /\ sid \in DOMAIN chat_sessions'
       /\ Len(chat_sessions'[sid]) >= Len(chat_sessions[sid])
       /\ SubSeq(chat_sessions'[sid], 1, Len(chat_sessions[sid])) = chat_sessions[sid]]_vars

\* A session that two cycles have appended to.
C15_Witness ==
  \E sid \in DOMAIN chat_sessions :
    /\ Len(chat_sessions[sid]) = 4
    /\ chat_sessions[sid][3].role = "user"

\* C16: every turn stored in any session has role user or assistant and
\* content that is not blank; a blank transcription or reply is never stored.
C16_TurnsWellFormed ==
  \A sid \in DOMAIN chat_sessions :
    \A k \in 1..Len(chat_sessions[sid]) :
      /\ chat_sessions[sid][k].role \in {"user", "assistant"}
      /\ ~Blank(chat_sessions[sid][k].content)

\* A cycle ended after a whitespace-only reply, with the session holding the
\* fallback turn in its place.
C16_Witness ==
  \E r \in Reqs :
    /\ Done(r)
    /\ frame[r].llm_calls # <<>>
    /\ frame[r].llm_text = <<" ", "\n">>
    /\ Len(Session(r)) = 2

\* C17: in one cycle each adapter is tried once and in order: at most one
\* transcription, and only of a valid upload; at most one generation, and only
\* after a non-blank transcription; chunk synthesis only after a non-blank
\* generation, the call after a failed chunk being on the next chunk; at most
\* one fallback synthesis, and after chunk synthesis only if every chunk failed.
C17_OneShotStagesInOrder ==
  \A r \in Reqs :
    /\ frame[r].stt_calls <= 1
    /\ Len(frame[r].llm_calls) <= 1
    /\ Len(frame[r].fallback_calls) <= 1
    /\ frame[r].stt_calls > 0 => frame[r].file = "audio"
    /\ frame[r].llm_calls # <<>> => (frame[r].stt_calls = 1 /\ ~Blank(frame[r].user_text))
    /\ frame[r].tts_calls # <<>> => (frame[r].llm_calls # <<>> /\ ~Blank(frame[r].llm_text))
    /\ \A k \in 1..(Len(frame[r].tts_calls) - 1) :
         frame[r].tts_calls[k].result = None =>
           /\ k * CHUNK_SIZE < Len(frame[r].llm_text)
           /\ frame[r].tts_calls[k + 1].text =
                SubSeq(frame[r].llm_text, k * CHUNK_SIZE + 1,
                       Min((k + 1) * CHUNK_SIZE, Len(frame[r].llm_text)))
    /\ (frame[r].fallback_calls # <<>> /\ frame[r].tts_calls # <<>>) =>
         /\ frame[r].pc = "done"
         /\ \A k \in 1..Len(frame[r].tts_calls) : frame[r].tts_calls[k].result = None

\* A cycle went through all three stages; its last chunk failed and was
\* neither retried nor replaced.
C17_Witness ==
  \E r \in Reqs :
    /\ Done(r)
    /\ frame[r].stt_calls = 1 /\ Len(frame[r].llm_calls) = 1
    /\ Len(frame[r].tts_calls) = 3
    /\ frame[r].tts_calls[3].result = None
    /\ frame[r].fallback_calls = <<>>
    /\ Len(frame[r].response.audioFiles) = 2

\* C18 as stated: after any cycle the store holds an entry for the cycle's
\* session identifier.
C18_Original ==
  \A r \in Reqs : Done(r) => frame[r].session_id \in DOMAIN chat_sessions

\* C18 amended: a session is created, empty and at once given the user turn,
\* by the first cycle on its identifier whose transcription is not blank; a
\* cycle that exits at the input or stt stage creates no entry.
C18_SessionCreatedWithUserTurn ==
  \A r \in Reqs :
    PastRead(r) =>
      /\ frame[r].session_id \in DOMAIN chat_sessions
           <=> (frame[r].known_before \/ (TranscriptionOk(r) /\ frame[r].pc # "stt_check"))
      /\ (~frame[r].known_before /\ frame[r].session_id \in DOMAIN chat_sessions) =>
           /\ frame[r].history_before = <<>>
           /\ Session(r)[1] = UserTurnOf(r)
      /\ (Done(r) /\ frame[r].session_id \notin DOMAIN chat_sessions) =>
           frame[r].response.chat_history = <<>>

\* A cycle on an unseen identifier exited at the stt stage and left no entry,
\* while the store holds another session.
C18_Witness ==
  \E r \in Reqs :
    /\ Done(r) /\ ExitStage(r) = "stt"
    /\ frame[r].session_id \notin DOMAIN chat_sessions
    /\ DOMAIN chat_sessions # {}

\* C19: whenever no cycle is between its two appends on a session (cycles past
\* the read run one at a time), the session has even length and alternates
\* user, assistant, user, assistant, ...; and a completed cycle with a non-blank
\* transcription has left its user turn followed by one assistant turn, the
\* model reply or the fallback text.
C19_TurnsAlternate ==
  /\ \A sid \in DOMAIN chat_sessions :
       (\A r \in Reqs : ~(BetweenAppends(r) /\ frame[r].session_id = sid)) =>
         /\ Len(chat_sessions[sid]) % 2 = 0
         /\ \A k \in 1..Len(chat_sessions[sid]) :
              chat_sessions[sid][k].role = (IF k % 2 = 1 THEN "user" ELSE "assistant")
  /\ \A r \in Reqs :
       (Done(r) /\ TranscriptionOk(r)) =>
         LET n == Len(Session(r))
         IN /\ n >= 2
            /\ Session(r)[n - 1] = UserTurnOf(r)
            /\ Session(r)[n].role = "assistant"
            /\ Session(r)[n].content =
                 (IF Blank(frame[r].llm_text) THEN FALLBACK_TEXT ELSE frame[r].llm_text)

\* A session after a cycle that ended in the fallback turn and a cycle that
\* ended in a model reply.
C19_Witness ==
  \E r \in Reqs :
    /\ Done(r) /\ GenerationOk(r)
    /\ Len(Session(r)) = 4
    /\ Session(r)[2] = FallbackTurn
    /\ Session(r)[4] = ReplyTurnOf(r)

\* The session identifier of the cycle that r is in during a step.
SidInStep(r) == IF frame[r].pc = "idle" THEN frame'[r].session_id ELSE frame[r].session_id

\* C20: a step of a cycle for session A leaves every other session as it is
\* (neither created nor changed); the dialog it sends is that of session A,
\* and the chat_history it returns is session A.
C20_SessionsIsolated ==
  [][\A r \in Reqs :
       frame'[r] # frame[r] =>
         /\ \A sid \in SessionIds \ {SidInStep(r)} :
              /\ sid \in DOMAIN chat_sessions' <=> sid \in DOMAIN chat_sessions
              /\ Get(chat_sessions', sid) = Get(chat_sessions, sid)
         /\ (frame'[r].llm_calls # <<>> /\ frame[r].llm_calls = <<>>) =>
              /\ Len(frame'[r].llm_calls[1])
                   = LineStart(Get(chat_sessions', SidInStep(r)),
                               Len(Get(chat_sessions', SidInStep(r))) + 1) + 3
              /\ \A k \in 1..Len(Get(chat_sessions', SidInStep(r))) :
                   SubSeq(frame'[r].llm_calls[1],
                          LineStart(Get(chat_sessions', SidInStep(r)), k) + 1,
                          LineStart(Get(chat_sessions', SidInStep(r)), k + 1) - 1)
                     = LineOf(Get(chat_sessions', SidInStep(r))[k])
         /\ frame'[r].pc = "done" =>
              frame'[r].response.chat_history = Get(chat_sessions', SidInStep(r))]_vars

\* A cycle returned for one session while the store holds another session with
\* a different history.
C20_Witness ==
  \E r \in Reqs :
    \E sid \in DOMAIN chat_sessions :
      /\ Done(r) /\ TranscriptionOk(r)
      /\ sid # frame[r].session_id
      /\ chat_sessions[sid] # <<>>
      /\ chat_sessions[sid] # Session(r)
      /\ frame[r].response.chat_history = Session(r)
====
